---- MODULE Spec2Model ----
(***************************************************************************)
(* Model of the "Export Assets at 150%" Adobe XD plugin (src/main.js).     *)
(*                                                                         *)
(* One command invocation is modelled: showDialog(selection), the format   *)
(* dialog built by exportDialog() with its event handlers, and the         *)
(* asynchronous export exportAt(selection, scale, format).                 *)
(*                                                                         *)
(* Conventions.                                                            *)
(*  - A JavaScript string is a sequence of one-character strings, so that  *)
(*    replace() and toLowerCase() are computed character by character.     *)
(*  - A JavaScript value whose type the code tests with typeof is a tagged *)
(*    record: Undef, Num(n), Str(s).                                       *)
(*  - The number 1.5 is kept in tenths (15), TLA+ having no fractions.     *)
(*  - An item of the selection is its index in selection.items; a file     *)
(*    handle returned by folder.createFile is the name of the file.        *)
(***************************************************************************)
EXTENDS Integers, Sequences, FiniteSets

\* ---------------------------------------------------------------- bounds
MaxItems == 2       \* selection.items has 0..MaxItems items
MaxEvents == 2      \* events delivered to the format dialog before it closes
MaxNameLen == 3     \* length of the strings handed to sanitizeName alone

\* ------------------------------------------------------- JavaScript values
Undef == [t |-> "undefined"]
Num(n) == [t |-> "number", v |-> n]
Str(s) == [t |-> "string", v |-> s]
TypeOf(x) == x.t

\* 1.5, in tenths
ExportScaleTenths == 15
EscapeKeyCode == 27
EnterKeyCode == 13
JpgQuality == 100

JPG == <<"J", "P", "G">>
PNG == <<"P", "N", "G">>
\* the <option> values of the <select>
SelectOptions == {PNG, JPG}
\* the keys whose keydown reaches the dialog
KeyCodes == {EscapeKeyCode, EnterKeyCode}

\* ------------------------------------------------------------ sanitizer
NotAllowed == {"\\", ":", "*", "?", "\"", "<", ">", "|", "#"}

\* the alphabet of the strings sanitizeName is applied to on its own
Chars == NotAllowed \cup {"/", "-", "a", " "}

Strings(n) == UNION {[1..k -> Chars] : k \in 0..n}

\* unsanitized.replace(/[\\:*?"<>|#]/, '') : the g flag forgotten
RECURSIVE removeFirstNotAllowed(_)
removeFirstNotAllowed(unsanitized) ==
    IF unsanitized = <<>> THEN <<>>
    ELSE IF Head(unsanitized) \in NotAllowed THEN Tail(unsanitized)
    ELSE <<Head(unsanitized)>> \o removeFirstNotAllowed(Tail(unsanitized))

\* unsanitized.replace(/[\\:*?"<>|#]/g, '')
removeNotAllowedCharacters(unsanitized) ==
    SelectSeq(unsanitized, LAMBDA c : c \notin NotAllowed)

\* unsanitized.replace(/\//g, '-')
dashesForSlashes(unsanitized) ==
    [i \in 1..Len(unsanitized) |->
        IF unsanitized[i] = "/" THEN "-" ELSE unsanitized[i]]

sanitizeName(unsanitized) ==
    removeNotAllowedCharacters(dashesForSlashes(unsanitized))

\* String.prototype.toLowerCase on the letters of the format names
LowerChar(c) ==
    CASE c = "J" -> "j"
      [] c = "P" -> "p"
      [] c = "G" -> "g"
      [] c = "N" -> "n"
      [] OTHER -> c

toLowerCase(s) == [i \in 1..Len(s) |-> LowerChar(s[i])]

\* --------------------------------------------------------------- inputs
\* display names of the selected items: two of them sanitize to the same
\* file name, one contains a removed character
ItemNames == { <<"a", "/", "b">>, <<"a", "-", "b">>, <<"c", "#">> }

Selections == UNION {[1..k -> ItemNames] : k \in 0..MaxItems}

VARIABLES
    selection,          \* selection.items, as the sequence of the item names
    pc,                 \* position of showDialog
    shown,              \* the dialogs created and opened with showModal()
    document,           \* the dialogs appended to the document, not removed
    response,           \* the response object of exportDialog
    events,             \* the events delivered to the format dialog so far
    exportCalls,        \* number of invocations of exportAt
    exportArgs,         \* the scale and format exportAt was invoked with
    exportPc,           \* position of exportAt
    hostCalls,          \* the host calls made: getFolder, createFile, ...
    fileName,           \* per item, the name passed to folder.createFile
    fileState,          \* per item, the state of its createFile promise
    renditionSettings,  \* the list of render jobs
    batchCalls,         \* number of calls of application.createRenditions
    batchState,         \* the state of the promise createRenditions returned
    log,                \* what console.log has been called with
    unhandled,          \* a promise was rejected and nobody handles it
    sanPc,              \* sanitizeName applied on its own: position
    sanInput,           \*   its argument
    sanOutput           \*   its result

dialogVars == <<pc, shown, document, response, events>>
exportVars == <<exportCalls, exportArgs, exportPc, hostCalls, fileName,
                fileState, renditionSettings, batchCalls, batchState, log,
                unhandled>>
sanVars == <<sanPc, sanInput, sanOutput>>
vars == <<selection, dialogVars, exportVars, sanVars>>

Items == 1..Len(selection)

\* ------------------------------------------------------- the format dialog
\* let response = {scale: undefined, format: undefined, cancelled: false}
\* response.format = 'JPG'
InitialResponse == [scale |-> Undef, format |-> Str(JPG), cancelled |-> FALSE]

\* Object.assign(target, source) for the fields of the response
Assign(target, source) ==
    [f \in DOMAIN target |-> IF f \in DOMAIN source THEN source[f] ELSE target[f]]

Buttons == {"#cancel", "#150percent"}

closeOptions(key) ==
    IF key = "#cancel"
    THEN [cancelled |-> TRUE]
    ELSE [scale |-> Num(ExportScaleTenths), cancelled |-> FALSE]

\* the click and focus listeners: Object.assign(response, closeOptions[key])
OnButton(resp, key) == Assign(resp, closeOptions(key))

\* the keydown listener, without its assignment
OnKeydown_Ignored(resp, keyCode) == resp

\* the keydown listener
OnKeydown(resp, keyCode) ==
    IF keyCode = EscapeKeyCode THEN Assign(resp, [cancelled |-> TRUE]) ELSE resp

\* the change listener, without its assignment
OnChange_Ignored(resp, value) == resp

\* the change listener of the <select>
OnChange(resp, value) == Assign(resp, [format |-> Str(value)])

\* --------------------------------------------------------------- exportAt
\* quality set whatever the format
Quality_Always(format) == Num(JpgQuality)

\* quality: format === 'JPG' ? 100 : undefined
Quality(format) == IF format = Str(JPG) THEN Num(JpgQuality) ELSE Undef

\* application.RenditionType[format]
RenditionType(format) ==
    IF format \in {Str(JPG), Str(PNG)}
    THEN [enum |-> "RenditionType", key |-> format.v]
    ELSE Undef

\* `${base}.${ext}`
FileNameOf(name, format) ==
    sanitizeName(name) \o <<".">> \o toLowerCase(format.v)

RenderJob(item) ==
    [node |-> item,
     outputFile |-> fileName[item],
     type |-> RenditionType(exportArgs.format),
     scale |-> exportArgs.scale,
     quality |-> Quality(exportArgs.format)]

\* Promise.all not awaited
AllSettled_NoJoin == TRUE

\* await Promise.all(...): every per-item async function has returned
AllSettled == \A i \in Items : fileState[i] \in {"created", "failed"}

\* -------------------------------------------------------------- showDialog
\* the empty-selection test always false
NoSelection_Never(items) == FALSE

\* !selection.items.length
NoSelection(items) == Len(items) = 0

\* the test of showDialog, without !response.cancelled
ShouldExport_NoCancelTest(resp) ==
    /\ TypeOf(resp.scale) = "number"
    /\ TypeOf(resp.format) = "string"

\* !response.cancelled && typeof response.scale === 'number' &&
\* typeof response.format === 'string'
ShouldExport(resp) ==
    /\ ~resp.cancelled
    /\ TypeOf(resp.scale) = "number"
    /\ TypeOf(resp.format) = "string"

Init ==
    /\ selection \in Selections
    /\ pc = "start"
    /\ shown = {}
    /\ document = {}
    /\ response = Undef
    /\ events = <<>>
    /\ exportCalls = 0
    /\ exportArgs = Undef
    /\ exportPc = "idle"
    /\ hostCalls = {}
    /\ fileName = <<>>
    /\ fileState = <<>>
    /\ renditionSettings = <<>>
    /\ batchCalls = 0
    /\ batchState = "none"
    /\ log = {}
    /\ unhandled = FALSE
    /\ sanPc = "idle"
    /\ sanInput = <<>>
    /\ sanOutput = <<>>

\* showDialog, empty selection: noSelectionDialog(), dialog.showModal()
ShowNoSelectionDialog ==
    /\ pc = "start"
    /\ NoSelection(selection)
    /\ shown' = shown \cup {"noSelection"}
    /\ document' = document \cup {"noSelection"}
    /\ pc' = "noSelectionModal"
    /\ UNCHANGED <<selection, response, events, exportVars, sanVars>>

\* the OK button closes the dialog; showDialog: dialog.remove(), return
DismissNoSelectionDialog ==
    /\ pc = "noSelectionModal"
    /\ document' = document \ {"noSelection"}
    /\ pc' = "done"
    /\ UNCHANGED <<selection, shown, response, events, exportVars, sanVars>>

\* showDialog, non-empty selection: exportDialog(), dialog.showModal()
ShowExportDialog ==
    /\ pc = "start"
    /\ ~NoSelection(selection)
    /\ response' = InitialResponse
    /\ shown' = shown \cup {"export"}
    /\ document' = document \cup {"export"}
    /\ pc' = "exportModal"
    /\ UNCHANGED <<selection, events, exportVars, sanVars>>

\* change event of the <select>
SelectChange(value) ==
    /\ pc = "exportModal"
    /\ Len(events) < MaxEvents
    /\ response' = OnChange(response, value)
    /\ events' = Append(events, [type |-> "change", value |-> value])
    /\ UNCHANGED <<selection, pc, shown, document, exportVars, sanVars>>

\* focus event of a button
ButtonFocus(key) ==
    /\ pc = "exportModal"
    /\ Len(events) < MaxEvents
    /\ response' = OnButton(response, key)
    /\ events' = Append(events, [type |-> "focus", target |-> key])
    /\ UNCHANGED <<selection, pc, shown, document, exportVars, sanVars>>

\* keydown event of the dialog
Keydown(keyCode) ==
    /\ pc = "exportModal"
    /\ Len(events) < MaxEvents
    /\ response' = OnKeydown(response, keyCode)
    /\ events' = Append(events, [type |-> "keydown", keyCode |-> keyCode])
    /\ UNCHANGED <<selection, pc, shown, document, exportVars, sanVars>>

\* click event of a button: the response is prepared, dialog.close(); the
\* close listener then calls dialog.close(response) and showModal() resolves
\* with the response object
ButtonClick(key) ==
    /\ pc = "exportModal"
    /\ response' = OnButton(response, key)
    /\ events' = Append(events, [type |-> "click", target |-> key])
    /\ pc' = "resolved"
    /\ UNCHANGED <<selection, shown, document, exportVars, sanVars>>

\* the host closes the dialog (ENTER, form submission, ESC): the close
\* listener calls dialog.close(response)
NativeClose ==
    /\ pc = "exportModal"
    /\ events' = Append(events, [type |-> "close"])
    /\ pc' = "resolved"
    /\ UNCHANGED <<selection, shown, document, response, exportVars, sanVars>>

\* showDialog after await dialog.showModal(): the test, the call of exportAt
\* (which runs up to its first await, fs.getFolder()), dialog.remove()
AfterModal ==
    /\ pc = "resolved"
    /\ IF ShouldExport(response)
       THEN /\ exportCalls' = exportCalls + 1
            /\ exportArgs' = [scale |-> response.scale, format |-> response.format]
            /\ renditionSettings' = <<>>
            /\ hostCalls' = hostCalls \cup {<<"getFolder", 0>>}
            /\ exportPc' = "getFolder"
       ELSE UNCHANGED <<exportCalls, exportArgs, renditionSettings, hostCalls,
                        exportPc>>
    /\ document' = document \ {"export"}
    /\ pc' = "done"
    /\ UNCHANGED <<selection, shown, response, events, fileName, fileState,
                   batchCalls, batchState, log, unhandled, sanVars>>

\* fs.getFolder() resolves: ext, then selection.items.map runs every async
\* function up to its await folder.createFile(fileName, {overwrite: true})
GetFolderResolved ==
    /\ exportPc = "getFolder"
    /\ fileName' = [i \in Items |-> FileNameOf(selection[i], exportArgs.format)]
    /\ fileState' = [i \in Items |-> "pending"]
    /\ hostCalls' = hostCalls \cup {<<"createFile", i>> : i \in Items}
    /\ exportPc' = "createFiles"
    /\ UNCHANGED <<selection, dialogVars, exportCalls, exportArgs,
                   renditionSettings, batchCalls, batchState, log, unhandled,
                   sanVars>>

\* fs.getFolder() rejects: the await throws outside of any try, the promise
\* of exportAt is rejected; showDialog neither awaits it nor attaches a catch
GetFolderRejected ==
    /\ exportPc = "getFolder"
    /\ exportPc' = "rejected"
    /\ unhandled' = TRUE
    /\ UNCHANGED <<selection, dialogVars, exportCalls, exportArgs, hostCalls,
                   fileName, fileState, renditionSettings, batchCalls,
                   batchState, log, sanVars>>

\* the catch block pushing the job all the same
CreateFileRejected_Pushes(item) ==
    /\ item \in DOMAIN fileState
    /\ fileState[item] = "pending"
    /\ fileState' = [fileState EXCEPT ![item] = "failed"]
    /\ renditionSettings' = Append(renditionSettings, RenderJob(item))
    /\ log' = log \cup {<<"createFile", item>>}
    /\ UNCHANGED <<selection, dialogVars, exportCalls, exportArgs, exportPc,
                   hostCalls, fileName, batchCalls, batchState, unhandled,
                   sanVars>>

\* folder.createFile of one item rejects: catch (e) { console.log(e) }
CreateFileRejected(item) ==
    /\ item \in DOMAIN fileState
    /\ fileState[item] = "pending"
    /\ fileState' = [fileState EXCEPT ![item] = "failed"]
    /\ log' = log \cup {<<"createFile", item>>}
    /\ UNCHANGED <<selection, dialogVars, exportCalls, exportArgs, exportPc,
                   hostCalls, fileName, renditionSettings, batchCalls,
                   batchState, unhandled, sanVars>>

\* folder.createFile of one item resolves: renditionSettings.push({...})
CreateFileResolved(item) ==
    /\ item \in DOMAIN fileState
    /\ fileState[item] = "pending"
    /\ fileState' = [fileState EXCEPT ![item] = "created"]
    /\ renditionSettings' = Append(renditionSettings, RenderJob(item))
    /\ UNCHANGED <<selection, dialogVars, exportCalls, exportArgs, exportPc,
                   hostCalls, fileName, batchCalls, batchState, log, unhandled,
                   sanVars>>

\* Promise.all resolves: application.createRenditions(renditionSettings) is
\* called with the list itself, .catch is attached, exportAt returns
SubmitBatch ==
    /\ exportPc = "createFiles"
    /\ AllSettled
    /\ batchCalls' = batchCalls + 1
    /\ hostCalls' = hostCalls \cup {<<"createRenditions", 0>>}
    /\ batchState' = "pending"
    /\ exportPc' = "returned"
    /\ UNCHANGED <<selection, dialogVars, exportCalls, exportArgs, fileName,
                   fileState, renditionSettings, log, unhandled, sanVars>>

\* the promise of createRenditions resolves: no then handler
BatchResolved ==
    /\ batchState = "pending"
    /\ batchState' = "resolved"
    /\ UNCHANGED <<selection, dialogVars, exportCalls, exportArgs, exportPc,
                   hostCalls, fileName, fileState, renditionSettings,
                   batchCalls, log, unhandled, sanVars>>

\* the promise of createRenditions rejects: .catch((error) => console.log(error))
BatchRejected ==
    /\ batchState = "pending"
    /\ batchState' = "rejected"
    /\ log' = log \cup {<<"createRenditions", 0>>}
    /\ UNCHANGED <<selection, dialogVars, exportCalls, exportArgs, exportPc,
                   hostCalls, fileName, fileState, renditionSettings,
                   batchCalls, unhandled, sanVars>>

Next ==
    \/ ShowNoSelectionDialog
    \/ DismissNoSelectionDialog
    \/ ShowExportDialog
    \/ \E value \in SelectOptions : SelectChange(value)
    \/ \E key \in Buttons : ButtonFocus(key)
    \/ \E keyCode \in KeyCodes : Keydown(keyCode)
    \/ \E key \in Buttons : ButtonClick(key)
    \/ NativeClose
    \/ AfterModal
    \/ GetFolderResolved
    \/ GetFolderRejected
    \/ \E item \in Items : CreateFileResolved(item)
    \/ \E item \in Items : CreateFileRejected(item)
    \/ SubmitBatch
    \/ BatchResolved
    \/ BatchRejected

Spec == Init /\ [][Next]_vars

\* ------------------------------------------- sanitizeName applied on its own
SanInit ==
    /\ selection = <<>>
    /\ pc = "start"
    /\ shown = {}
    /\ document = {}
    /\ response = Undef
    /\ events = <<>>
    /\ exportCalls = 0
    /\ exportArgs = Undef
    /\ exportPc = "idle"
    /\ hostCalls = {}
    /\ fileName = <<>>
    /\ fileState = <<>>
    /\ renditionSettings = <<>>
    /\ batchCalls = 0
    /\ batchState = "none"
    /\ log = {}
    /\ unhandled = FALSE
    /\ sanPc = "call"
    /\ sanInput \in Strings(MaxNameLen)
    /\ sanOutput = <<>>

\* const base = sanitizeName(item.name)
Sanitize ==
    /\ sanPc = "call"
    /\ sanOutput' = sanitizeName(sanInput)
    /\ sanPc' = "done"
    /\ UNCHANGED <<selection, dialogVars, exportVars, sanInput>>

SanNext == Sanitize

SanSpec == SanInit /\ [][SanNext]_vars

\* ================================================================ properties
\* ------------------------------------------------ what the events prescribe
IsButtonEvent(e, key) == e.type \in {"click", "focus"} /\ e.target = key

\* the event sets response.cancelled to true
SetsCancelled(e) ==
    \/ IsButtonEvent(e, "#cancel")
    \/ e.type = "keydown" /\ e.keyCode = EscapeKeyCode

\* the event sets response.cancelled to false
ClearsCancelled(e) == IsButtonEvent(e, "#150percent")

\* the value of the last change event, 'JPG' when there is none
RECURSIVE LastChangeValue(_)
LastChangeValue(evs) ==
    IF evs = <<>> THEN JPG
    ELSE LET e == evs[Len(evs)] IN
         IF e.type = "change" THEN e.value
         ELSE LastChangeValue(SubSeq(evs, 1, Len(evs) - 1))

\* which button the last event that touched response.cancelled stands for
RECURSIVE LastStage(_)
LastStage(evs) ==
    IF evs = <<>> THEN "none"
    ELSE LET e == evs[Len(evs)] IN
         IF SetsCancelled(e) THEN "cancel"
         ELSE IF ClearsCancelled(e) THEN "export"
         ELSE LastStage(SubSeq(evs, 1, Len(evs) - 1))

EverCancelled(evs) == \E i \in 1..Len(evs) : SetsCancelled(evs[i])

EndsWithExportClick(evs) ==
    /\ evs # <<>>
    /\ evs[Len(evs)].type = "click"
    /\ evs[Len(evs)].target = "#150percent"

DialogClosed == pc \in {"resolved", "done"} /\ "export" \in shown

Created == {i \in DOMAIN fileState : fileState[i] = "created"}
Failed == {i \in DOMAIN fileState : fileState[i] = "failed"}
JobNodes == {renditionSettings[k].node : k \in 1..Len(renditionSettings)}

\* C1: whenever the format dialog has closed with response.cancelled = true,
\* exportAt is not invoked and no host call of an export is made, whatever
\* response.scale and response.format hold.
C1_CancelledNeverExports ==
    (DialogClosed /\ response.cancelled)
        => (exportCalls = 0 /\ exportPc = "idle" /\ hostCalls = {})

\* the dialog closed cancelled although Export had been focused (scale set)
\* and the format changed, and showDialog has finished without exporting
C1_Witness ==
    /\ pc = "done"
    /\ "export" \in shown
    /\ response.cancelled
    /\ response.scale = Num(ExportScaleTenths)
    /\ response.format = Str(PNG)
    /\ exportCalls = 0

\* C2: with a selection of zero items exportAt is never called, no host call
\* of an export is made, the format dialog is never created or opened, and
\* the only dialog shown is the no-selection dialog.
C2_EmptySelectionNeverExports ==
    Len(selection) = 0 =>
        /\ exportCalls = 0
        /\ exportPc = "idle"
        /\ hostCalls = {}
        /\ "export" \notin shown
        /\ "export" \notin document
        /\ response = Undef
        /\ pc # "start" => shown = {"noSelection"}

\* showDialog has run to its end on an empty selection
C2_Witness ==
    /\ Len(selection) = 0
    /\ pc = "done"
    /\ shown = {"noSelection"}
    /\ document = {}

\* C3: after a sequence of events ending with a click on Export, the response
\* is cancelled = false, scale = 1.5, format = the value of the last change
\* event ('JPG' without one), and exportAt is invoked once with that scale
\* and format.
C3_ExportClickResponse ==
    EndsWithExportClick(events) =>
        /\ response = [scale |-> Num(ExportScaleTenths),
                       format |-> Str(LastChangeValue(events)),
                       cancelled |-> FALSE]
        /\ pc = "done" =>
            /\ exportCalls = 1
            /\ exportArgs = [scale |-> Num(ExportScaleTenths),
                             format |-> Str(LastChangeValue(events))]

\* the selector was changed to PNG, Cancel was focused on the way, Export
\* was clicked and exportAt has been invoked with PNG
C3_Witness ==
    /\ pc = "done"
    /\ EndsWithExportClick(events)
    /\ EverCancelled(events)
    /\ LastChangeValue(events) = PNG
    /\ exportCalls = 1
    /\ exportArgs.format = Str(PNG)

\* C4: when createFile fails for k of the n items, the list passed to
\* createRenditions holds exactly n-k jobs, one for each item whose file was
\* created and none for a failed one; the failures are logged and exportAt
\* does not reject because of them.
C4_PartialFailure ==
    /\ batchCalls >= 1 =>
        /\ Len(renditionSettings) = Cardinality(Items) - Cardinality(Failed)
        /\ Cardinality(JobNodes) = Len(renditionSettings)
        /\ JobNodes = Created
        /\ JobNodes \cap Failed = {}
    /\ Failed # {} =>
        /\ exportPc # "rejected"
        /\ ~unhandled
        /\ \A i \in Failed : <<"createFile", i>> \in log

\* two items, the file of one could not be created, the batch was submitted
\* with the one remaining job
C4_Witness ==
    /\ batchCalls = 1
    /\ exportPc = "returned"
    /\ Cardinality(Items) = 2
    /\ Cardinality(Failed) = 1
    /\ Len(renditionSettings) = 1

\* C5: no failure of a host call of an export escapes: exportAt is never
\* rejected, no rejection is left unhandled, every failure is logged and the
\* batch call is made at most once.
C5_NoFailureEscapes ==
    /\ exportPc # "rejected"
    /\ ~unhandled
    /\ batchCalls <= 1
    /\ batchState = "rejected" => <<"createRenditions", 0>> \in log
    /\ \A i \in Failed : <<"createFile", i>> \in log

\* C6, as stated: once response.cancelled has been set to true while the
\* dialog is open, exportAt is not invoked, whatever events follow.
C6_OnceCancelledNeverExports ==
    EverCancelled(events) => exportCalls = 0

\* C6, amended: once response.cancelled has been set to true, exportAt is
\* invoked only if a later focus or click on Export has set it back to false
\* and nothing has set it to true again before the dialog closes.
C6_CancelledUnlessExportRestaged ==
    (EverCancelled(events) /\ exportCalls > 0) => LastStage(events) = "export"

\* cancelled was set, Export was staged afterwards, exportAt has been invoked
C6_Witness ==
    /\ pc = "done"
    /\ EverCancelled(events)
    /\ LastStage(events) = "export"
    /\ exportCalls = 1

\* s with every '/' replaced by '-' and the characters \ : * ? " < > | #
\* deleted, computed character by character in one pass
RECURSIVE Cleaned(_)
Cleaned(s) ==
    IF s = <<>> THEN <<>>
    ELSE LET c == Head(s) IN
         (CASE c = "/" -> <<"-">>
            [] c \in {"\\", ":", "*", "?", "\"", "<", ">", "|", "#"} -> <<>>
            [] OTHER -> <<c>>) \o Cleaned(Tail(s))

C8_QualityOnlyForJpg ==
    \A k \in 1..Len(renditionSettings) :
        LET job == renditionSettings[k] IN
        /\ job.quality = Num(JpgQuality) <=> exportArgs.format = Str(JPG)
        /\ job.quality = Num(JpgQuality) <=> job.type = RenditionType(Str(JPG))
        /\ exportArgs.format # Str(JPG) => job.quality = Undef

\* a PNG batch was submitted, its job without quality
C8_Witness ==
    /\ batchCalls = 1
    /\ exportArgs.format = Str(PNG)
    /\ Len(renditionSettings) >= 1
    /\ renditionSettings[1].quality = Undef

\* C9: createRenditions is called at most once, only when the createFile of
\* every item has settled, and the list of jobs does not change once the
\* batch call is issued.
C9_BatchAfterJoin ==
    /\ [](/\ batchCalls <= 1
          /\ batchCalls >= 1 =>
                /\ DOMAIN fileState = Items
                /\ \A i \in Items : fileState[i] \in {"created", "failed"})
    /\ [][batchCalls >= 1 => renditionSettings' = renditionSettings]_vars

\* the files were created in the reverse order of the items and the batch
\* was submitted after both
C9_Witness ==
    /\ batchCalls = 1
    /\ Len(renditionSettings) = 2
    /\ renditionSettings[1].node = 2
    /\ renditionSettings[2].node = 1

\* C10: no two render jobs of a batch target the same output file.
C10_DistinctOutputFiles ==
    \A k, l \in 1..Len(renditionSettings) :
        k # l => renditionSettings[k].outputFile # renditionSettings[l].outputFile
====
